---- MODULE Spec2Model ----
(***************************************************************************)
(* Multi-strategy similarity search of SimpleRAGApp (src/main1.py):        *)
(* the router similarity_search, the handlers _flat_search, _hnsw_search,  *)
(* _ivf_search, _bm25_search, _mmr_search, and the corpus rebuild          *)
(* store_in_mongodb, over the MongoDB collection "document_chunks".        *)
(*                                                                         *)
(* Numbers.  Embeddings are integer vectors of dimension 2 whose norms are *)
(* integers, so every cosine similarity is a multiple of 1/25 and every    *)
(* MMR score a multiple of 1/50: a float x is the integer x * Unit.  The   *)
(* float NaN (0.0 / 0.0 of numpy scalars, a warning and not an exception)  *)
(* is a value of its own, for which every comparison is false.             *)
(***************************************************************************)
EXTENDS Integers, Sequences, FiniteSets, TLC

\* ------------------------------------------------------------------ bounds
MaxChunks == 3        \* small corpora have 0..MaxChunks chunks
MaxTopK == 3          \* top_k ranges over -MaxNegTopK..MaxTopK
MaxNegTopK == 1
MaxBeyond == 1        \* long corpora have SampleSize-1 .. SampleSize+MaxBeyond chunks
MaxRebuilds == 2      \* rebuilds that may run beside a search
MaxRebuiltChunks == 2 \* chunks of a corpus stored beside a search
MaxScanChunks == 32   \* corpora whose partitioned scan is followed round by round have 1..MaxScanChunks chunks

\* ------------------------------------------------------- program constants
SampleSize == 50      \* .limit(50) of _hnsw_search
PartitionDivisor == 10 \* total_chunks // 10 of _ivf_search
OverfetchFactor == 3  \* top_k * 3 of _mmr_search
LambdaNum == 1        \* lambda_mult = 0.5 = LambdaNum / LambdaDen
LambdaDen == 2

Unit == 2 * 5 * 5     \* the float 1.0

\* ------------------------------------------------------------------ floats
NaN == [nan |-> TRUE, num |-> 0]
Num(x) == [nan |-> FALSE, num |-> x]

\* x < y of two floats: false as soon as one of them is NaN.
ISLT(x, y) == ~x.nan /\ ~y.nan /\ x.num < y.num

Min(a, b) == IF a < b THEN a ELSE b
Max(a, b) == IF a < b THEN b ELSE a

\* ------------------------------------------------------------- embeddings
Zero == <<0, 0>>
Vecs == {Zero, <<1, 0>>, <<-1, 0>>, <<3, 4>>}

Dot(a, b) == a[1] * b[1] + a[2] * b[2]

\* np.linalg.norm, exact on Vecs
Norm(a) == CHOOSE n \in 0..5 : n * n = Dot(a, a)

\* np.dot(a, b) / (np.linalg.norm(a) * np.linalg.norm(b)); there is no guard
\* for a zero norm in the source: 0.0 / 0.0 is NaN.
Cosine(a, b) ==
    IF Norm(a) * Norm(b) = 0 THEN NaN
    ELSE Num((Dot(a, b) * Unit) \div (Norm(a) * Norm(b)))

\* ---------------------------------------------------------------- python
\* s[:k] of a list
PySliceTo(s, k) ==
    IF k >= 0 THEN SubSeq(s, 1, Min(k, Len(s)))
    ELSE SubSeq(s, 1, Max(Len(s) + k, 0))

RECURSIVE Reverse(_)
Reverse(s) == IF s = <<>> THEN <<>> ELSE Append(Reverse(Tail(s)), Head(s))

\* list.sort(key=lambda x: x[1], reverse=True) on a list shorter than 64, as
\* CPython runs it: reverse the list, find the leading run (count_run), reverse
\* it when strictly descending, insert the rest by binary insertion
\* (binarysort), reverse the list.  Only key < key is ever asked.
RECURSIVE RunEnd(_, _, _)
RunEnd(a, k, desc) ==
    IF k < Len(a) /\ (ISLT(a[k + 1].similarity, a[k].similarity) <=> desc)
    THEN RunEnd(a, k + 1, desc)
    ELSE k

CountRun(a) ==
    IF Len(a) <= 1 THEN [n |-> Len(a), descending |-> FALSE]
    ELSE LET desc == ISLT(a[2].similarity, a[1].similarity)
         IN  [n |-> RunEnd(a, 2, desc), descending |-> desc]

RECURSIVE BinarySearch(_, _, _, _)
BinarySearch(a, pivot, l, r) ==
    IF l >= r THEN l
    ELSE LET p == l + ((r - l) \div 2)
         IN  IF ISLT(pivot.similarity, a[p].similarity)
             THEN BinarySearch(a, pivot, l, p)
             ELSE BinarySearch(a, pivot, p + 1, r)

RECURSIVE BinarySort(_, _)
BinarySort(a, start) ==
    IF start > Len(a) THEN a
    ELSE LET pivot == a[start]
             l == BinarySearch(a, pivot, 1, start)
         IN  BinarySort(SubSeq(a, 1, l - 1) \o <<pivot>> \o SubSeq(a, l, start - 1)
                            \o SubSeq(a, start + 1, Len(a)),
                        start + 1)

SortAscending(a) ==
    LET run == CountRun(a)
        b == IF run.descending
             THEN Reverse(SubSeq(a, 1, run.n)) \o SubSeq(a, run.n + 1, Len(a))
             ELSE a
    IN  BinarySort(b, run.n + 1)

SortReverse(a) == Reverse(SortAscending(Reverse(a)))

\* ---------------------------------------------------------------- corpus
\* A chunk document as generate_embeddings builds it (the text is not read by
\* the search code, except by the text index, which is external).
Chunk(i, v) == [chunk_id |-> i, embedding |-> v]

Ids(coll) == {coll[i].chunk_id : i \in 1..Len(coll)}

\* collection.find({}): every document, in insertion order
FindAll(coll) == coll

\* collection.find({"chunk_id": {"$gte": lo, "$lte": hi}})
FindRangeInclusive(coll, lo, hi) ==
    SelectSeq(coll, LAMBDA c : lo <= c.chunk_id /\ c.chunk_id <= hi)

\* collection.find({"chunk_id": {"$gt": lo, "$lt": hi}}), the lower end left out
FindRangeAbove(coll, lo, hi) ==
    SelectSeq(coll, LAMBDA c : lo < c.chunk_id /\ c.chunk_id < hi)

\* collection.find({"chunk_id": {"$gte": lo, "$lt": hi}})
FindRange(coll, lo, hi) ==
    SelectSeq(coll, LAMBDA c : lo <= c.chunk_id /\ c.chunk_id < hi)

\* collection.count_documents({})
CountDocuments(coll) == Len(coll)

\* collection.find({}) where the limit was meant
FindAllUnlimited(coll, n) == coll

\* collection.find({}).limit(n), n > 0
FindAllLimit(coll, n) == SubSeq(coll, 1, Min(n, Len(coll)))

\* cursor.limit(n) of pymongo: 0 is "no limit", a negative n limits to -n
CursorLimit(docs, n) ==
    IF n = 0 THEN docs
    ELSE SubSeq(docs, 1, Min(IF n < 0 THEN 0 - n ELSE n, Len(docs)))

\* ------------------------------------------------------- handler outcomes
\* What a handler call did: it returned a list (kind "list"), raised (kind
\* "raise") or never returns (kind "hang").  embeds counts the calls of
\* genai.embed_content, scored is the list of (chunk, similarity) pairs the
\* scan appended, trace the handlers entered, in order.
Returned(docs, embeds, scored, trace, indexFailed) ==
    [kind |-> "list", docs |-> docs, embeds |-> embeds, scored |-> scored,
     trace |-> trace, indexFailed |-> indexFailed, embedFailed |-> FALSE]

Raised(embeds, trace, indexFailed) ==
    [kind |-> "raise", docs |-> <<>>, embeds |-> embeds, scored |-> <<>>,
     trace |-> trace, indexFailed |-> indexFailed, embedFailed |-> TRUE]

Hung(embeds, scored, trace) ==
    [kind |-> "hang", docs |-> <<>>, embeds |-> embeds, scored |-> scored,
     trace |-> trace, indexFailed |-> FALSE, embedFailed |-> FALSE]

\* the loop "for chunk in chunks: similarities.append((chunk, similarity))"
Similarities(query, chunks) ==
    [i \in 1..Len(chunks) |->
        [chunk |-> chunks[i], similarity |-> Cosine(query, chunks[i].embedding)]]

ChunksOf(pairs) == [i \in 1..Len(pairs) |-> pairs[i].chunk]

\* the tail of _flat_search, _hnsw_search and _ivf_search: sort, cut, unwrap
TopChunks(similarities, top_k) == ChunksOf(PySliceTo(SortReverse(similarities), top_k))

\* ---------------------------------------------------------------- FLAT
\* embedOk: whether genai.embed_content answers (it raises otherwise).  A query
\* is named by the embedding the provider returns for it.
FlatSearch(coll, query, top_k, embedOk) ==
    IF ~embedOk THEN Raised(1, <<"FLAT">>, FALSE)
    ELSE LET similarities == Similarities(query, FindAll(coll))
         IN  Returned(TopChunks(similarities, top_k), 1, similarities, <<"FLAT">>, FALSE)

\* ---------------------------------------------------------------- HNSW
HnswSearch(coll, query, top_k, embedOk) ==
    IF ~embedOk THEN Raised(1, <<"HNSW">>, FALSE)
    ELSE LET similarities == Similarities(query, FindAllLimit(coll, SampleSize))
         IN  Returned(TopChunks(similarities, top_k), 1, similarities, <<"HNSW">>, FALSE)

\* ----------------------------------------------------------------- IVF
PartitionSize(total_chunks) == Max(1, total_chunks \div PartitionDivisor)

\* the partition starts of range(0, total_chunks, partition_size), from i on
RECURSIVE IvfScan(_, _, _, _, _)
IvfScan(coll, query, i, total_chunks, partition_size) ==
    IF i >= total_chunks THEN <<>>
    ELSE Similarities(query, FindRange(coll, i, i + partition_size))
             \o IvfScan(coll, query, i + partition_size, total_chunks, partition_size)

IvfSearch(coll, query, top_k, embedOk) ==
    LET total_chunks == CountDocuments(coll)
        partition_size == PartitionSize(total_chunks)
    IN  IF ~embedOk THEN Raised(1, <<"IVF">>, FALSE)
        ELSE LET all_similarities == IvfScan(coll, query, 0, total_chunks, partition_size)
             IN  Returned(TopChunks(all_similarities, top_k), 1, all_similarities,
                          <<"IVF">>, FALSE)

\* ---------------------------------------------------------------- BM25
\* index = [ok, matches]: whether the $text query answers (it raises when the
\* text index is missing or the server errs) and the ids of the documents it
\* matches.  The rank order among the matches is the index's own and is not
\* modelled: the matches are listed in insertion order.
TextSearch(coll, index) == SelectSeq(coll, LAMBDA c : c.chunk_id \in index.matches)

\* _bm25_search without its except clause
Bm25SearchNoFallback(coll, query, top_k, index, embedOk) ==
    IF index.ok
    THEN Returned(CursorLimit(TextSearch(coll, index), top_k), 0, <<>>, <<"BM25">>, FALSE)
    ELSE [Raised(0, <<"BM25">>, TRUE) EXCEPT !.embedFailed = FALSE]

Bm25Search(coll, query, top_k, index, embedOk) ==
    IF index.ok
    THEN Returned(CursorLimit(TextSearch(coll, index), top_k), 0, <<>>, <<"BM25">>, FALSE)
    ELSE LET flat == FlatSearch(coll, query, top_k, embedOk)
         IN  [flat EXCEPT !.trace = <<"BM25">> \o @, !.indexFailed = TRUE]

\* ----------------------------------------------------------------- MMR
\* max(max_similarity, similarity) of Python: the second only when it is greater
PyMax(a, b) == IF ISLT(a, b) THEN b ELSE a

\* the loop over selected_doc, from max_similarity = 0
RECURSIVE MaxSimilarity(_, _, _)
MaxSimilarity(candidate, selected, max_similarity) ==
    IF selected = <<>> THEN max_similarity
    ELSE MaxSimilarity(candidate, Tail(selected),
                       PyMax(max_similarity,
                             Cosine(candidate.embedding, Head(selected).embedding)))

\* lambda_mult * relevance - (1 - lambda_mult) * max_similarity
MmrScore(relevance, max_similarity) ==
    IF relevance.nan \/ max_similarity.nan THEN NaN
    ELSE Num((LambdaNum * relevance.num - (LambdaDen - LambdaNum) * max_similarity.num)
                 \div LambdaDen)

\* the loop over enumerate(candidates), from idx on; best = [score, idx], idx 0
\* standing for best_candidate = None (positions count from 1 here)
RECURSIVE BestCandidate(_, _, _, _, _)
BestCandidate(query, candidates, selected, idx, best) ==
    IF idx > Len(candidates) THEN best
    ELSE LET candidate == candidates[idx]
             relevance == Cosine(query, candidate.embedding)
             max_similarity == MaxSimilarity(candidate, selected, Num(0))
             mmr_score == MmrScore(relevance, max_similarity)
         IN  BestCandidate(query, candidates, selected, idx + 1,
                           IF ISLT(best.score, mmr_score)
                           THEN [score |-> mmr_score, idx |-> idx]
                           ELSE best)

RemoveAt(s, i) == SubSeq(s, 1, i - 1) \o SubSeq(s, i + 1, Len(s))

\* the while loop: [done, selected] with done FALSE when a round selects
\* nothing, which leaves selected and candidates as they were, for ever
RECURSIVE MmrLoop(_, _, _, _)
MmrLoop(query, top_k, selected, candidates) ==
    IF ~(Len(selected) < top_k /\ candidates # <<>>)
    THEN [done |-> TRUE, selected |-> selected]
    ELSE LET best == BestCandidate(query, candidates, selected, 1,
                                   [score |-> Num(0 - Unit), idx |-> 0])
         IN  IF best.idx = 0
             THEN [done |-> FALSE, selected |-> selected]
             ELSE MmrLoop(query, top_k, Append(selected, candidates[best.idx]),
                          RemoveAt(candidates, best.idx))

\* embedOk2: whether the second genai.embed_content of the call answers
MmrSearch(coll, query, top_k, embedOk, embedOk2) ==
    LET flat == FlatSearch(coll, query, top_k * OverfetchFactor, embedOk)
        trace == <<"MMR">> \o flat.trace
    IN  IF flat.kind = "raise" THEN [flat EXCEPT !.trace = trace]
        ELSE IF flat.docs = <<>> THEN Returned(<<>>, 1, flat.scored, trace, FALSE)
        ELSE IF ~embedOk2 THEN Raised(2, trace, FALSE)
        ELSE LET loop == MmrLoop(query, top_k, <<Head(flat.docs)>>, Tail(flat.docs))
             IN  IF loop.done THEN Returned(loop.selected, 2, flat.scored, trace, FALSE)
                 ELSE Hung(2, flat.scored, trace)

\* -------------------------------------------------------------- router
Known == {"FLAT", "HNSW", "IVF", "BM25", "MMR"}
Strategies == Known \cup {"ANNOY"}

\* the chain with "raise ValueError(strategy)" as its else branch
DispatchUnknownRaises(coll, query, top_k, strategy, env) ==
    CASE strategy = "FLAT" -> FlatSearch(coll, query, top_k, env.embedOk)
      [] strategy = "HNSW" -> HnswSearch(coll, query, top_k, env.embedOk)
      [] strategy = "IVF"  -> IvfSearch(coll, query, top_k, env.embedOk)
      [] strategy = "BM25" -> Bm25Search(coll, query, top_k, env.index, env.embedOk)
      [] strategy = "MMR"  -> MmrSearch(coll, query, top_k, env.embedOk, env.embedOk2)
      [] OTHER             -> [Raised(0, <<>>, FALSE) EXCEPT !.embedFailed = FALSE]

\* the if / elif chain of similarity_search
Dispatch(coll, query, top_k, strategy, env) ==
    CASE strategy = "FLAT" -> FlatSearch(coll, query, top_k, env.embedOk)
      [] strategy = "HNSW" -> HnswSearch(coll, query, top_k, env.embedOk)
      [] strategy = "IVF"  -> IvfSearch(coll, query, top_k, env.embedOk)
      [] strategy = "BM25" -> Bm25Search(coll, query, top_k, env.index, env.embedOk)
      [] strategy = "MMR"  -> MmrSearch(coll, query, top_k, env.embedOk, env.embedOk2)
      [] OTHER             -> FlatSearch(coll, query, top_k, env.embedOk)

\* similarity_search: what the caller gets.  "except Exception: return []"
\* turns a raise into the empty list; a hang is never turned into anything.
Caught(h) ==
    [h EXCEPT !.kind = IF @ = "raise" THEN "list" ELSE @,
              !.docs = IF h.kind = "raise" THEN <<>> ELSE @]

SimilaritySearchResult(coll, query, top_k, strategy, env) ==
    Caught(Dispatch(coll, query, top_k, strategy, env))

\* ------------------------------------------------------------------ state
VARIABLES
    collection,   \* the documents of "document_chunks", in insertion order
    pc,           \* the caller: "idle", "returned" (holds a result), "hung"
    call,         \* the arguments of the running or last similarity_search
    ret,          \* what that call did (see Returned)
    scan,         \* the locals of a search that runs step by step
    reads,        \* history: what each read of that search met in the store
    rebuild,      \* the client running store_in_mongodb beside the search
    generation    \* history: the rebuilds begun so far

vars == <<collection, pc, call, ret, scan, reads, rebuild, generation>>

\* what the two external services do during one call
NoEnv == [embedOk |-> TRUE, embedOk2 |-> TRUE, index |-> [ok |-> TRUE, matches |-> {}]]
NoCall == [query |-> Zero, top_k |-> 0, strategy |-> "", env |-> NoEnv]
NoRet == [kind |-> "none", docs |-> <<>>, embeds |-> 0, scored |-> <<>>,
          trace |-> <<>>, indexFailed |-> FALSE, embedFailed |-> FALSE]
NoScan == [total_chunks |-> 0, i |-> 0, all_similarities |-> <<>>]
NoRebuild == [pc |-> "idle", pending |-> <<>>]

\* ----------------------------------------------------------------- inputs
\* generate_embeddings numbers the chunks 0, 1, ... in order
Corpus(embeddings) == [i \in 1..Len(embeddings) |-> Chunk(i - 1, embeddings[i])]

SmallCorpora == {Corpus(e) : e \in UNION {[1..n -> Vecs] : n \in 1..MaxChunks}}

\* n chunks of embedding w, but for the chunk at position p, of embedding v
LongCorpus(n, p, v, w) == [i \in 1..n |-> Chunk(i - 1, IF i = p THEN v ELSE w)]

LongCorpora ==
    {LongCorpus(n, p, v, w) :
        n \in (SampleSize - 1)..(SampleSize + MaxBeyond),
        p \in {SampleSize - 1, SampleSize, SampleSize + 1},
        v \in Vecs \ {Zero}, w \in {<<-1, 0>>, <<3, 4>>}}

CorpusInputs == SmallCorpora \cup LongCorpora

TopKs == (0 - MaxNegTopK)..MaxTopK

MatchSets(coll) ==
    IF Len(coll) <= MaxChunks THEN SUBSET Ids(coll) ELSE {{}, Ids(coll)}

\* the outcomes of the services that the strategy can meet
Envs(coll, strategy) ==
    {[embedOk |-> e1, embedOk2 |-> e2, index |-> ix] :
        e1 \in BOOLEAN, e2 \in BOOLEAN,
        ix \in {[ok |-> FALSE, matches |-> {}]}
                 \cup {[ok |-> TRUE, matches |-> m] : m \in MatchSets(coll)}}

\* the outcomes that differ for the strategy: a service it does not call is
\* left at its NoEnv value
EnvsFor(coll, strategy) ==
    {env \in Envs(coll, strategy) :
        /\ (strategy # "BM25" => env.index = NoEnv.index)
        /\ (strategy = "BM25" /\ env.index.ok => env.embedOk)
        /\ (strategy # "MMR" \/ ~env.embedOk => env.embedOk2)}

\* ---------------------------------------------------------------- actions
Init ==
    /\ collection = <<>>
    /\ pc = "idle"
    /\ call = NoCall
    /\ ret = NoRet
    /\ scan = NoScan
    /\ reads = <<>>
    /\ rebuild = NoRebuild
    /\ generation = 0

\* store_in_mongodb(chunk_embeddings), no other client at work: delete_many({})
\* then insert_many(chunk_embeddings)
StoreInMongodb(chunk_embeddings) ==
    /\ pc = "idle"
    /\ collection' = chunk_embeddings
    /\ UNCHANGED <<pc, call, ret, scan, reads, rebuild, generation>>

\* similarity_search(query, top_k, strategy), no other client at work
SimilaritySearch(query, top_k, strategy, env) ==
    /\ pc = "idle"
    /\ call' = [query |-> query, top_k |-> top_k, strategy |-> strategy, env |-> env]
    /\ ret' = SimilaritySearchResult(collection, query, top_k, strategy, env)
    /\ pc' = IF ret'.kind = "hang" THEN "hung" ELSE "returned"
    /\ UNCHANGED <<collection, scan, reads, rebuild, generation>>

\* the caller is done with the list it got
Return ==
    /\ pc = "returned"
    /\ pc' = "idle"
    /\ call' = NoCall
    /\ ret' = NoRet
    /\ scan' = NoScan
    /\ reads' = <<>>
    /\ UNCHANGED <<collection, rebuild, generation>>

Store == pc = "idle" /\ \E ce \in CorpusInputs : StoreInMongodb(ce)

Search ==
    /\ pc = "idle"
    /\ \E query \in Vecs, top_k \in TopKs, strategy \in Strategies :
          \E env \in EnvsFor(collection, strategy) :
              SimilaritySearch(query, top_k, strategy, env)

Next == Store \/ Search \/ Return

Spec == Init /\ [][Next]_vars

\* ------------------------------------------- a search beside a rebuild
\* Another client of the same database runs store_in_mongodb while this one
\* searches.  Each call on the collection is one step; the steps of the two
\* clients interleave freely.

\* what a read meets: the generation in the store, whether it is whole (no
\* rebuild is between its delete_many and its insert_many), and the number of
\* chunks the read hands over to be scored
Observation(chunks) ==
    [gen |-> generation, complete |-> rebuild.pc = "idle", chunks |-> Len(chunks)]

\* store_in_mongodb: self.collection.delete_many({})
DeleteMany(chunk_embeddings) ==
    /\ rebuild.pc = "idle"
    /\ generation < MaxRebuilds
    /\ collection' = <<>>
    /\ generation' = generation + 1
    /\ rebuild' = [pc |-> "insert", pending |-> chunk_embeddings]
    /\ UNCHANGED <<pc, call, ret, scan, reads>>

\* store_in_mongodb: self.collection.insert_many(chunk_embeddings)
InsertMany ==
    /\ rebuild.pc = "insert"
    /\ collection' = rebuild.pending
    /\ rebuild' = NoRebuild
    /\ UNCHANGED <<pc, call, ret, scan, reads, generation>>

\* _ivf_search: total_chunks = self.collection.count_documents({})
IvfCount(query, top_k) ==
    /\ pc = "idle"
    /\ call' = [query |-> query, top_k |-> top_k, strategy |-> "IVF", env |-> NoEnv]
    /\ scan' = [total_chunks |-> CountDocuments(collection), i |-> 0,
                all_similarities |-> <<>>]
    /\ reads' = <<Observation(<<>>)>>
    /\ pc' = "ivf_embed"
    /\ UNCHANGED <<collection, ret, rebuild, generation>>

\* _ivf_search: genai.embed_content; when it raises, similarity_search
\* returns []
IvfEmbed(embedOk) ==
    /\ pc = "ivf_embed"
    /\ call' = [call EXCEPT !.env.embedOk = embedOk]
    /\ pc' = IF embedOk THEN "ivf_scan" ELSE "returned"
    /\ ret' = IF embedOk THEN ret ELSE Caught(Raised(1, <<"IVF">>, FALSE))
    /\ UNCHANGED <<collection, scan, reads, rebuild, generation>>

\* _ivf_search: one round of the loop over range(0, total_chunks, partition_size)
IvfScanPartition ==
    /\ pc = "ivf_scan"
    /\ scan.i < scan.total_chunks
    /\ LET partition_size == PartitionSize(scan.total_chunks)
           partition_chunks == FindRange(collection, scan.i, scan.i + partition_size)
       IN  /\ scan' = [scan EXCEPT
                          !.all_similarities =
                              @ \o Similarities(call.query, partition_chunks),
                          !.i = @ + partition_size]
           /\ reads' = Append(reads, Observation(partition_chunks))
    /\ UNCHANGED <<collection, pc, call, ret, rebuild, generation>>

\* _ivf_search: after the loop, sort, cut and return
IvfSort ==
    /\ pc = "ivf_scan"
    /\ scan.i >= scan.total_chunks
    /\ ret' = Returned(TopChunks(scan.all_similarities, call.top_k), 1,
                       scan.all_similarities, <<"IVF">>, FALSE)
    /\ pc' = "returned"
    /\ UNCHANGED <<collection, call, scan, reads, rebuild, generation>>

\* _flat_search: genai.embed_content
FlatEmbed(query, top_k, embedOk) ==
    /\ pc = "idle"
    /\ call' = [query |-> query, top_k |-> top_k, strategy |-> "FLAT",
                env |-> [NoEnv EXCEPT !.embedOk = embedOk]]
    /\ pc' = IF embedOk THEN "flat_find" ELSE "returned"
    /\ ret' = IF embedOk THEN ret ELSE Caught(Raised(1, <<"FLAT">>, FALSE))
    /\ UNCHANGED <<collection, scan, reads, rebuild, generation>>

\* _flat_search: list(self.collection.find({})), then score, sort, cut, return
FlatFind ==
    /\ pc = "flat_find"
    /\ LET similarities == Similarities(call.query, FindAll(collection))
       IN  ret' = Returned(TopChunks(similarities, call.top_k), 1, similarities,
                           <<"FLAT">>, FALSE)
    /\ reads' = <<Observation(FindAll(collection))>>
    /\ pc' = "returned"
    /\ UNCHANGED <<collection, call, scan, rebuild, generation>>

RebuiltCorpora == {c \in SmallCorpora : Len(c) <= MaxRebuiltChunks}

Rebuild == \E ce \in RebuiltCorpora : DeleteMany(ce)

IvfBegin == pc = "idle" /\ \E query \in Vecs, top_k \in 0..MaxTopK : IvfCount(query, top_k)

IvfEmbedded == \E embedOk \in BOOLEAN : IvfEmbed(embedOk)

FlatBegin ==
    /\ pc = "idle"
    /\ \E query \in Vecs, top_k \in 0..MaxTopK, embedOk \in BOOLEAN :
           FlatEmbed(query, top_k, embedOk)

NextConc ==
    \/ Rebuild \/ InsertMany
    \/ IvfBegin \/ IvfEmbedded \/ IvfScanPartition \/ IvfSort
    \/ FlatBegin \/ FlatFind
    \/ Return

SpecConc == Init /\ [][NextConc]_vars

\* ------------------------------------------- the partitioned scan alone
\* One client: store_in_mongodb, then _ivf_search followed one partition at a
\* time, on corpora long enough for partitions of more than one chunk.
ScanCorpora ==
    UNION {{LongCorpus(n, p, <<1, 0>>, <<3, 4>>) : p \in {1, n}} : n \in 1..MaxScanChunks}

StoreScan == pc = "idle" /\ \E ce \in ScanCorpora : StoreInMongodb(ce)

NextIvf ==
    \/ StoreScan
    \/ IvfBegin \/ IvfEmbedded \/ IvfScanPartition \/ IvfSort
    \/ Return

SpecIvf == Init /\ [][NextIvf]_vars

\* ------------------------------------------------------------- properties
IdsOf(docs) == {docs[i].chunk_id : i \in 1..Len(docs)}

\* what similarity_search hands the caller of the Exact strategy, the services
\* behaving as during the recorded call
FlatOutcome == SimilaritySearchResult(collection, call.query, call.top_k, "FLAT", call.env)

\* the score of a chunk against the query of the recorded call
ScoreOf(c) == Cosine(call.query, c.embedding)

\* C1: whatever the corpus, the query, the strategy identifier and top_k >= 0,
\* the list similarity_search returns has at most min(top_k, number of chunks
\* in the corpus) elements.
C1_LengthBound ==
    pc = "returned" /\ call.top_k >= 0
        => Len(ret.docs) <= Min(call.top_k, Len(collection))

\* a may stand before b in a ranking: its score is not lower, and on equal
\* scores its id is lower
RanksBefore(a, b) ==
    /\ ~ISLT(ScoreOf(a), ScoreOf(b))
    /\ (ScoreOf(a) = ScoreOf(b) => a.chunk_id < b.chunk_id)

\* C2: the Exact (FLAT) handler scores every chunk of the corpus and returns
\* the first top_k of them in non-increasing score order, equal scores in
\* ascending chunk id order: every returned chunk ranks before every later
\* returned chunk and before every chunk left out.
C2_FlatRanked ==
    pc = "returned" /\ call.strategy = "FLAT" /\ call.env.embedOk /\ call.top_k >= 0
        => /\ Len(ret.scored) = Len(collection)
           /\ Len(ret.docs) = Min(call.top_k, Len(collection))
           /\ \A i, j \in 1..Len(ret.docs) : i < j => RanksBefore(ret.docs[i], ret.docs[j])
           /\ \A i \in 1..Len(ret.docs), j \in 1..Len(collection) :
                  collection[j].chunk_id \notin IdsOf(ret.docs)
                      => RanksBefore(ret.docs[i], collection[j])

\* C3: on a corpus whose chunk ids are 0..N-1, the Partitioned (IVF) handler
\* returns the same set of chunk ids as the Exact (FLAT) handler for the same
\* query and top_k, also when chunks tie in score at the top_k cut-off.
C3_IvfSameIdsAsFlat ==
    pc = "returned" /\ call.strategy = "IVF" /\ call.env.embedOk
        => IdsOf(ret.docs) = IdsOf(FlatOutcome.docs)

\* an IVF search over partitions of several chunks, the last one shorter, that
\* cuts between two chunks of equal score
C3_Witness ==
    /\ pc = "returned" /\ call.strategy = "IVF" /\ call.env.embedOk
    /\ PartitionSize(Len(collection)) > 1
    /\ Len(collection) % PartitionSize(Len(collection)) # 0
    /\ call.top_k > 0 /\ Len(ret.docs) = call.top_k
    /\ \E j \in 1..Len(collection) :
           /\ collection[j].chunk_id \notin IdsOf(ret.docs)
           /\ ScoreOf(collection[j]) = ScoreOf(ret.docs[Len(ret.docs)])

\* C4: when the text index is unavailable or its call fails, the Keyword
\* (BM25) strategy hands the caller exactly the list the Exact (FLAT) strategy
\* hands it for the same query and top_k, and similarity_search returns a list:
\* the index failure does not leave it as an exception.
C4_Bm25FallsBackToFlat ==
    pc = "returned" /\ call.strategy = "BM25" /\ ~call.env.index.ok
        => /\ ret.kind = "list"
           /\ ret.indexFailed
           /\ ret.docs = FlatOutcome.docs

\* a BM25 search whose index failed and that returned chunks all the same
C4_Witness ==
    /\ pc = "returned" /\ call.strategy = "BM25" /\ ~call.env.index.ok
    /\ ret.docs # <<>>

\* C5: when the query embedding or a chunk embedding is the zero vector, the
\* similarity computed for the pair is 0.0, never NaN (top_k >= 0).
C5_ZeroVectorScoresZero ==
    pc \in {"returned", "hung"} /\ call.top_k >= 0
        => \A i \in 1..Len(ret.scored) :
               call.query = Zero \/ ret.scored[i].chunk.embedding = Zero
                   => ret.scored[i].similarity = Num(0)

\* what the caller of similarity_search can see of an outcome
Visible(r) == <<r.kind, r.docs>>

\* C6: when the embedding provider fails on the query, the caller of
\* similarity_search gets an outcome it can tell apart from that of a
\* successful search over the empty corpus (top_k >= 0).
C6_EmbedFailureSurfaced ==
    pc = "returned" /\ ret.embedFailed /\ call.top_k >= 0
        => Visible(ret)
               # Visible(SimilaritySearchResult(<<>>, call.query, call.top_k,
                                                call.strategy, NoEnv))

NoZeroVector ==
    call.query # Zero /\ \A i \in 1..Len(collection) : collection[i].embedding # Zero

\* C7: a search that runs beside a rebuild returns a result computed from one
\* corpus generation: the chunks it scored all belong to the same generation
\* (the reads that handed it chunks all met the same generation).
C7_OneGeneration ==
    pc = "returned"
        => \A i, j \in 1..Len(reads) :
               reads[i].chunks > 0 /\ reads[j].chunks > 0 => reads[i].gen = reads[j].gen

\* C8: for every corpus, query and top_k >= 0, the Diversity (MMR) loop
\* terminates and returns exactly min(top_k, number of candidates) chunks, the
\* candidates being the Exact handler's result for 3 * top_k.  Stated for the
\* calls in which no embedding is the zero vector, whose scores are all
\* numbers: these already decide it.
C8_MmrTerminates ==
    (/\ pc \in {"returned", "hung"} /\ call.strategy = "MMR" /\ call.top_k >= 0
     /\ call.env.embedOk /\ call.env.embedOk2 /\ NoZeroVector)
        => /\ pc = "returned"
           /\ Len(ret.docs) =
                  Min(call.top_k,
                      Len(FlatSearch(collection, call.query,
                                     call.top_k * OverfetchFactor, TRUE).docs))

\* the handlers a call of the strategy enters when the router never reruns one
OwnTrace ==
    CASE call.strategy = "BM25" -> IF call.env.index.ok THEN <<"BM25">>
                                   ELSE <<"BM25", "FLAT">>
      [] call.strategy = "MMR" -> <<"MMR", "FLAT">>
      [] call.strategy \in Known -> <<call.strategy>>
      [] OTHER -> <<"FLAT">>

\* C9: an unrecognized strategy identifier is no error: similarity_search
\* returns what it returns for FLAT with the same query and top_k; and the
\* router enters the Exact handler for no other reason: whatever fails inside
\* a handler, the handlers entered are those of the strategy alone.
C9_UnknownStrategyIsFlat ==
    pc = "returned"
        => /\ (call.strategy \notin Known
                  => ret.kind = "list" /\ ret.docs = FlatOutcome.docs)
           /\ ret.trace = OwnTrace
           /\ (ret.embedFailed => ret.docs = <<>>)

\* an unrecognized strategy that returned chunks
C9_Witness ==
    /\ pc = "returned" /\ call.strategy \notin Known
    /\ ret.docs # <<>>

\* C10: the Bounded-Sample (HNSW) handler returns only chunks among the first
\* SampleSize chunks of the corpus, and on a corpus of at most SampleSize
\* chunks the same ordered list as the Exact handler.
C10_HnswWithinSample ==
    pc = "returned" /\ call.strategy = "HNSW"
        => /\ \A i \in 1..Len(ret.docs) :
                  \E p \in 1..Min(SampleSize, Len(collection)) : collection[p] = ret.docs[i]
           /\ (Len(collection) <= SampleSize => ret.docs = FlatOutcome.docs)

\* an HNSW search that leaves out the best chunk of the corpus, which stands
\* right after the sample
C10_Witness ==
    /\ pc = "returned" /\ call.strategy = "HNSW" /\ call.env.embedOk
    /\ Len(collection) > SampleSize /\ call.top_k > 0
    /\ FlatOutcome.docs # <<>>
    /\ FlatOutcome.docs[1] = collection[SampleSize + 1]
    /\ FlatOutcome.docs[1].chunk_id \notin IdsOf(ret.docs)

\* C11: a negative top_k is rejected before any corpus scan begins:
\* similarity_search with top_k < 0 scores no chunk of the corpus and hands
\* the caller no chunk.
C11_NegativeTopKRejected ==
    pc = "returned" /\ call.top_k < 0 /\ NoZeroVector
        => ret.scored = <<>> /\ ret.docs = <<>>

\* the pool of round r of the recorded MMR call: the candidates (the Exact
\* handler's result for 3 * top_k) without the r chunks selected so far
PoolOfRound(r) ==
    LET candidates == FlatSearch(collection, call.query,
                                 call.top_k * OverfetchFactor, TRUE).docs
        selected == {ret.docs[k] : k \in 1..r}
    IN  SelectSeq(candidates, LAMBDA c : c \notin selected)

\* diversity_penalty as claimed: the greatest score(c, s) over the selected s
ClaimedPenalty(c, selected) ==
    LET sims == {Cosine(c.embedding, selected[k].embedding).num : k \in 1..Len(selected)}
    IN  CHOOSE m \in sims : \A x \in sims : x <= m

\* LambdaDen * mmr as claimed
ClaimedMmr(c, selected) ==
    LambdaNum * ScoreOf(c).num - (LambdaDen - LambdaNum) * ClaimedPenalty(c, selected)

\* the candidate the claim selects: of the highest mmr, the earliest in the pool
ClaimedPick(pool, selected) ==
    LET j == CHOOSE j \in 1..Len(pool) :
                 /\ \A k \in 1..Len(pool) :
                        ClaimedMmr(pool[k], selected) <= ClaimedMmr(pool[j], selected)
                 /\ \A k \in 1..(j - 1) :
                        ClaimedMmr(pool[k], selected) < ClaimedMmr(pool[j], selected)
    IN  pool[j]

\* C12: in every round of the Diversity (MMR) loop the candidate moved to the
\* selected list is the one maximizing lambda * relevance - (1 - lambda) *
\* diversity_penalty, lambda = 0.5, diversity_penalty the maximum of
\* score(candidate, s) over the selected s, also when these are all negative;
\* on ties the earliest in the pool.  Stated for the calls in which no
\* embedding is the zero vector, whose scores are all numbers.
C12_MmrPicksArgmax ==
    (/\ pc = "returned" /\ call.strategy = "MMR" /\ call.top_k >= 0
     /\ call.env.embedOk /\ call.env.embedOk2 /\ NoZeroVector)
        => \A r \in 1..(Len(ret.docs) - 1) :
               ret.docs[r + 1] = ClaimedPick(PoolOfRound(r), SubSeq(ret.docs, 1, r))

\* C13: on a corpus of N chunks with ids 0..N-1 and partition_size =
\* max(1, N div 10), the ranges [i, i + partition_size) the Partitioned (IVF)
\* handler scans for i = 0, partition_size, ... < N neither overlap nor leave a
\* gap: after every round the chunks scored so far are the ids 0..min(i, N)-1,
\* each once, and at the return every chunk of the corpus was scored once.
C13_IvfPartitionsCoverOnce ==
    (pc \in {"ivf_scan", "returned"} /\ call.strategy = "IVF" /\ call.env.embedOk)
        => LET N == Len(collection)
               done == Min(scan.i, N)
           IN  /\ scan.total_chunks = N
               /\ scan.i % PartitionSize(N) = 0
               /\ Len(scan.all_similarities) = done
               /\ \A k \in 1..done : scan.all_similarities[k].chunk.chunk_id = k - 1
               /\ (pc = "returned"
                      => scan.i >= N /\ ret.scored = scan.all_similarities)

\* an IVF call has returned after scanning partitions of several chunks, the
\* last one shorter than the others
C13_Witness ==
    /\ pc = "returned" /\ call.strategy = "IVF" /\ call.env.embedOk
    /\ PartitionSize(Len(collection)) > 1
    /\ Len(collection) % PartitionSize(Len(collection)) # 0
    /\ Len(ret.scored) = Len(collection)

\* C14: during one call of similarity_search the embedding provider is called
\* exactly once for the query when the strategy is not Keyword (FLAT, HNSW,
\* IVF, MMR or an unrecognized identifier), and zero times when the strategy
\* is Keyword (BM25) and the text index answers.  Stated of the calls in which
\* the provider answers each time it is called.
C14_OneEmbedPerSearch ==
    (/\ pc = "returned" /\ call.top_k >= 0 /\ NoZeroVector
     /\ call.env.embedOk /\ call.env.embedOk2)
        => /\ (call.strategy # "BM25" => ret.embeds = 1)
           /\ (call.strategy = "BM25" /\ call.env.index.ok => ret.embeds = 0)

====
